---- MODULE Spec2Model ----
(***************************************************************************)
(* A model of the beets Tidal plugin (beetsplug/tidal.py).                 *)
(*                                                                         *)
(* Three specifications share this module:                                 *)
(*   SpecSession  plugin initialisation: load_session / OAuth login /      *)
(*                save_session against the session file;                   *)
(*   SpecSync     the tidalsync command looping over the library items;    *)
(*   SpecSearch   query normalisation, get_albums / get_tracks,            *)
(*                candidates / item_candidates, album_for_id.              *)
(*                                                                         *)
(* Python's None is the empty set and a present value x is {x}; strings    *)
(* that the code edits character by character are sequences of one-        *)
(* character strings.                                                      *)
(***************************************************************************)
EXTENDS Integers, Sequences, FiniteSets, TLC

VARIABLES
    \* ---- session manager ----
    tz,          \* the local time zone of the process
    file,        \* contents of the session file
    session,     \* self.session of the most recently constructed plugin
    initResult,  \* how the most recent __init__ ended
    loadArgs,    \* arguments of the most recent load_oauth_session call
    accepted,    \* the vendor's answer to that call
    logins,      \* number of login_oauth_simple calls so far
    writes,      \* number of save_session calls so far
    saved,       \* the session values the most recent save_session dumped
    inits,       \* number of initialisations so far
    \* ---- tidalsync command ----
    items,       \* the Item objects the command iterates over
    before,      \* the same items as they were when the command started
    db,          \* the library database row of each item (item.store)
    stores,      \* number of item.store() calls per item
    tagWrites,   \* number of item.try_write() calls per item
    lookups,     \* the session.track calls made, in order
    syncpc,      \* "idle", "running", "done" or "aborted"
    idx,         \* position of the loop in items
    force,       \* opts.force_refetch
    write,       \* ui.should_write()
    clock,       \* what time.time() returns next
    \* ---- search adapter ----
    text,        \* the release / title / query string the host passes in
    artistIn,    \* the artist string the host passes in
    op,          \* the plugin method the host called last
    sent,        \* the query string handed to session.search
    searched,    \* the result type the search was restricted to
    found,       \* what session.search answered
    detailKey,   \* the ID handed to session.album / session.track
    vobj,        \* the vendor object that lookup answered with
    outcome,     \* "returned" or "raised"
    resultList,  \* the list the method returned
    resultValue  \* the AlbumInfo or None album_for_id returned

sessVars == <<tz, file, session, initResult, loadArgs, accepted, logins,
              writes, saved, inits>>

syncVars == <<items, before, db, stores, tagWrites, lookups, syncpc, idx,
              force, write, clock>>

searchVars == <<text, artistIn, op, sent, searched, found, detailKey, vobj,
                outcome, resultList, resultValue>>

vars == <<sessVars, syncVars, searchVars>>

----------------------------------------------------------------------------
(* Bounds *)

MaxTime == 6      \* naive local expiry times are 0..MaxTime (hours)
MaxInits == 3     \* plugin initialisations in one behaviour
MaxItems == 2     \* items in the library
MaxParts == 2     \* pieces an input string is put together from
MaxTracks == 1    \* tracks of a vendor album

----------------------------------------------------------------------------
(* Option values *)

None == {}
Some(x) == {x}
Get(o) == CHOOSE x \in o : TRUE

----------------------------------------------------------------------------
(* Local time: datetime.timestamp() and datetime.fromtimestamp()           *)
(* The unit is one hour.  Zone "fixed" is UTC-5 all year; zone "dst" is    *)
(* UTC-5 with one hour of daylight saving between the instants 7 and 10,   *)
(* so that local hour 2 does not exist and local hour 5 happens twice.     *)

Zones == {"fixed", "dst"}

utcoffset(z, u) == IF z = "dst" /\ u >= 7 /\ u < 10 THEN -4 ELSE -5

\* time.localtime(u) as a naive local time
local(z, u) == u + utcoffset(z, u)

Max2(a, b) == IF a >= b THEN a ELSE b

\* naive datetime t -> POSIX timestamp (CPython's local-time inversion for a
\* naive datetime with fold = 0, the look-back for a fold being one day)
timestamp(z, t) ==
    LET a  == local(z, t) - t
        u1 == t - a
        t1 == local(z, u1)
        bf == local(z, u1 - 24) - (u1 - 24)
        b  == IF t1 = t THEN bf ELSE t1 - u1
        u2 == t - b
        t2 == local(z, u2)
    IN  IF t1 = t /\ a = bf THEN u1
        ELSE IF t2 = t THEN u2
        ELSE IF t1 = t THEN u1
        ELSE Max2(u1, u2)

\* timestamps datetime.fromtimestamp accepts; anything else raises
InRange(u) == u >= -100 /\ u <= 100

\* POSIX timestamp -> naive local datetime
fromtimestamp(z, u) == local(z, u)

----------------------------------------------------------------------------
(* The session file *)

Keys == {"token_type", "access_token", "refresh_token", "expiry_time"}

TokenTypes == {"Bearer"}
AccessTokens == {"a1", "a2"}
RefreshTokens == {"r1"}

\* a timestamp no datetime can hold (fromtimestamp raises on it)
HugeTime == 1000

\* the token set of a logged-in tidalapi.Session
Sessions == [token_type : TokenTypes, access_token : AccessTokens,
             refresh_token : RefreshTokens, expiry_time : 0..MaxTime]

Restrict(f, K) == [k \in K |-> f[k]]

FileAbsent == [kind |-> "absent", data |-> <<>>]
FileGarbage == [kind |-> "garbage", data |-> <<>>]
JsonFile(d) == [kind |-> "json", data |-> d]

\* JSON objects a session file may hold: any subset of the four keys, the
\* expiry a timestamp of the modelled range or one out of every range
JsonObjects ==
    { Restrict(r, K) :
        r \in [token_type : TokenTypes, access_token : AccessTokens,
               refresh_token : RefreshTokens,
               expiry_time : {5, 7, 8, 10, HugeTime}],
        K \in SUBSET Keys }

Files == {FileAbsent, FileGarbage} \cup { JsonFile(d) : d \in JsonObjects }

\* load_session: outcome "raised" (an exception other than
\* FileNotFoundError leaves the function), "none" (returns None) or
\* "session" (returns s); args is what load_oauth_session was called with.
load_session(f, z, accept) ==
    IF f.kind = "absent" THEN
        [outcome |-> "none", args |-> None, session |-> None]
    ELSE IF f.kind = "garbage" THEN               \* json.JSONDecodeError
        [outcome |-> "raised", args |-> None, session |-> None]
    ELSE IF DOMAIN f.data # Keys THEN             \* KeyError
        [outcome |-> "raised", args |-> None, session |-> None]
    ELSE IF ~InRange(f.data["expiry_time"]) THEN  \* OverflowError
        [outcome |-> "raised", args |-> None, session |-> None]
    ELSE
        LET a == [token_type |-> f.data["token_type"],
                  access_token |-> f.data["access_token"],
                  refresh_token |-> f.data["refresh_token"],
                  expiry_time |-> fromtimestamp(z, f.data["expiry_time"])]
        IN  IF accept
            THEN [outcome |-> "session", args |-> Some(a), session |-> Some(a)]
            ELSE [outcome |-> "none", args |-> Some(a), session |-> None]

\* save_session: the file json.dump leaves behind for session s
save_session(s, z) ==
    JsonFile([token_type |-> s.token_type,
              access_token |-> s.access_token,
              refresh_token |-> s.refresh_token,
              expiry_time |-> timestamp(z, s.expiry_time)])

----------------------------------------------------------------------------
(* SpecSession *)

\* the sync command's state while no command runs
SyncIdle ==
    /\ items = <<>>
    /\ before = <<>>
    /\ db = <<>>
    /\ stores = <<>>
    /\ tagWrites = <<>>
    /\ lookups = <<>>
    /\ syncpc = "idle"
    /\ idx = 0
    /\ force = FALSE
    /\ write = FALSE
    /\ clock = 1

\* the search adapter's state before the host has called anything
NoCall ==
    /\ op = "none"
    /\ sent = <<>>
    /\ searched = "none"
    /\ found = [status |-> "none", top_hit |-> None, listed |-> <<>>]
    /\ detailKey = None
    /\ vobj = None
    /\ outcome = "none"
    /\ resultList = <<>>
    /\ resultValue = None

SearchIdle ==
    /\ text = <<>>
    /\ artistIn = <<>>
    /\ NoCall

\* the session manager's state once a session is ready
SessionReady ==
    /\ tz = "fixed"
    /\ file = FileAbsent
    /\ session = None
    /\ initResult = "ready"
    /\ loadArgs = None
    /\ accepted = FALSE
    /\ logins = 0
    /\ writes = 0
    /\ saved = None
    /\ inits = 0

InitSession ==
    /\ tz \in Zones
    /\ file \in Files
    /\ session = None
    /\ initResult = "none"
    /\ loadArgs = None
    /\ accepted = FALSE
    /\ logins = 0
    /\ writes = 0
    /\ saved = None
    /\ inits = 0
    /\ SyncIdle
    /\ SearchIdle

\* TidalPlugin.__init__ ends with the exception load_session let through
PluginInitRaises ==
    /\ inits < MaxInits
    /\ \E accept \in BOOLEAN :
         LET r == load_session(file, tz, accept) IN
         /\ r.outcome = "raised"
         /\ inits' = inits + 1
         /\ initResult' = "raised"
         /\ session' = None
         /\ loadArgs' = r.args
         /\ accepted' = FALSE
         /\ UNCHANGED <<tz, file, logins, writes, saved>>
         /\ UNCHANGED <<syncVars, searchVars>>

\* TidalPlugin.__init__ with a session file the vendor accepts
PluginInitLoaded ==
    /\ inits < MaxInits
    /\ \E accept \in BOOLEAN :
         LET r == load_session(file, tz, accept) IN
         /\ r.outcome = "session"
         /\ inits' = inits + 1
         /\ initResult' = "ready"
         /\ session' = r.session
         /\ loadArgs' = r.args
         /\ accepted' = TRUE
         /\ UNCHANGED <<tz, file, logins, writes, saved>>
         /\ UNCHANGED <<syncVars, searchVars>>

\* TidalPlugin.__init__ when load_session returned None: OAuth login, save
PluginInitLogin ==
    /\ inits < MaxInits
    /\ \E accept \in BOOLEAN, s \in Sessions :
         LET r == load_session(file, tz, accept) IN
         /\ r.outcome = "none"
         /\ inits' = inits + 1
         /\ initResult' = "ready"
         /\ session' = Some(s)
         /\ loadArgs' = r.args
         /\ accepted' = FALSE
         /\ logins' = logins + 1
         /\ file' = save_session(s, tz)
         /\ writes' = writes + 1
         /\ saved' = Some(s)
         /\ UNCHANGED tz
         /\ UNCHANGED <<syncVars, searchVars>>

NextSession == PluginInitRaises \/ PluginInitLoaded \/ PluginInitLogin

SpecSession == InitSession /\ [][NextSession]_vars

----------------------------------------------------------------------------
(* Session claims *)

\* what the claims call a valid session file: parseable JSON holding the
\* four fields with an expiry a datetime can hold
FileValid(f) ==
    /\ f.kind = "json"
    /\ DOMAIN f.data = Keys
    /\ InRange(f.data["expiry_time"])

\* C1: every initialisation ends with a usable session, never with an
\* error; when the session file is absent or invalid, or the vendor
\* rejects its tokens, the initialisation logs in and leaves the new token
\* set in the session file.
C1_InitAlwaysUsable ==
    [][inits' = inits + 1 =>
         /\ initResult' = "ready"
         /\ session' # None
         /\ (~FileValid(file) \/ ~accepted') =>
               /\ logins' = logins + 1
               /\ file' = save_session(Get(session'), tz)]_vars

\* C2: once an initialisation has logged in and saved, a later
\* initialisation passes load_oauth_session exactly the four saved values
\* and, when the vendor accepts them, neither logs in nor rewrites the file.
C2_SavedSessionReloaded ==
    [][(saved # None /\ inits' = inits + 1) =>
         /\ loadArgs' = saved
         /\ accepted' =>
               /\ logins' = logins
               /\ writes' = writes
               /\ file' = file]_vars

----------------------------------------------------------------------------
(* The library items *)

TrackIds == {"t1", "t2"}

\* the popularity the vendor reports for each of its tracks
VendorPopularity == [t \in TrackIds |-> IF t = "t1" THEN 50 ELSE 70]

\* Python's builtin function id, which is no track ID
BuiltinId == "builtin_function_id"

\* an item: a function from the names of the fields it has to their values
MkItem(tid, pop) ==
    [f \in {"title"}
           \cup (IF tid = None THEN {} ELSE {"tidal_track_id"})
           \cup (IF pop = None THEN {} ELSE {"tidal_track_popularity"}) |->
        IF f = "title" THEN "song"
        ELSE IF f = "tidal_track_id" THEN Get(tid)
        ELSE Get(pop)]

\* item[k] = v
SetField(it, k, v) ==
    [f \in DOMAIN it \cup {k} |-> IF f = k THEN v ELSE it[f]]

\* the items a library may hold: with or without a track ID, with or
\* without popularity data (a number, or the None an earlier sync stored)
ItemShapes ==
    { MkItem(tid, pop) :
        tid \in {None} \cup { Some(t) : t \in TrackIds },
        pop \in {None, Some(None), Some(Some(10))} }

SeqsUpTo(S, n) == UNION { [1..k -> S] : k \in 0..n }

----------------------------------------------------------------------------
(* tidalsync *)

Raised == [raised |-> TRUE, value |-> None]
Returned(v) == [raised |-> FALSE, value |-> Some(v)]

\* session.track(key): the vendor's track of that ID, or an exception; wf
\* is whether the object has the attributes the field mapping reads
session_track(key, fail, wf) ==
    IF key \in TrackIds /\ ~fail
    THEN Returned([id |-> key, popularity |-> VendorPopularity[key],
                   wellformed |-> wf])
    ELSE Raised

\* the argument track_popularity hands to session.track
track_lookup_arg(track_id) == BuiltinId

\* track_popularity without its except clause
track_popularity_unguarded(track_id, fail) ==
    LET r == session_track(track_lookup_arg(track_id), fail, TRUE) IN
    [raised |-> r.raised, key |-> track_lookup_arg(track_id),
     value |-> IF r.raised THEN None ELSE Some(Get(r.value).popularity)]

\* track_popularity: the value returned, and the key it looked up
track_popularity(track_id, fail) ==
    LET r == session_track(track_lookup_arg(track_id), fail, TRUE) IN
    [raised |-> FALSE, key |-> track_lookup_arg(track_id),
     value |-> IF r.raised THEN None ELSE Some(Get(r.value).popularity)]

\* the skip test that forgets the force flag
skip_present_unforced(item, frc) == "tidal_track_popularity" \in DOMAIN item

\* the first skip of the loop: popularity present and not forced
skip_present(item, frc) ==
    ~frc /\ "tidal_track_popularity" \in DOMAIN item

\* the second skip of the loop: item.tidal_track_id raises AttributeError
skip_no_id(item) == "tidal_track_id" \notin DOMAIN item

InitSync ==
    /\ SessionReady
    /\ items \in SeqsUpTo(ItemShapes, MaxItems)
    /\ before = items
    /\ db = items
    /\ stores = [i \in 1..Len(items) |-> 0]
    /\ tagWrites = [i \in 1..Len(items) |-> 0]
    /\ lookups = <<>>
    /\ syncpc = "idle"
    /\ idx = 0
    /\ force = FALSE
    /\ write = FALSE
    /\ clock = 1
    /\ SearchIdle

\* the tidalsync command: func(lib, opts, args) calls tidalsync
TidalsyncCmd ==
    /\ syncpc = "idle"
    /\ \E f \in BOOLEAN, w \in BOOLEAN :
         /\ force' = f
         /\ write' = w
    /\ syncpc' = "running"
    /\ idx' = 1
    /\ UNCHANGED <<items, before, db, stores, tagWrites, lookups, clock>>
    /\ UNCHANGED <<sessVars, searchVars>>

\* one iteration that ends at the first continue
SyncSkipPresent ==
    /\ syncpc = "running"
    /\ idx <= Len(items)
    /\ skip_present(items[idx], force)
    /\ idx' = idx + 1
    /\ UNCHANGED <<items, before, db, stores, tagWrites, lookups, syncpc,
                   force, write, clock>>
    /\ UNCHANGED <<sessVars, searchVars>>

\* one iteration that ends at the second continue
SyncSkipNoId ==
    /\ syncpc = "running"
    /\ idx <= Len(items)
    /\ ~skip_present(items[idx], force)
    /\ skip_no_id(items[idx])
    /\ idx' = idx + 1
    /\ UNCHANGED <<items, before, db, stores, tagWrites, lookups, syncpc,
                   force, write, clock>>
    /\ UNCHANGED <<sessVars, searchVars>>

\* one full iteration: look up, assign the two fields, store, maybe write
SyncProcess ==
    /\ syncpc = "running"
    /\ idx <= Len(items)
    /\ ~skip_present(items[idx], force)
    /\ ~skip_no_id(items[idx])
    /\ \E fail \in BOOLEAN :
         LET p  == track_popularity(items[idx]["tidal_track_id"], fail)
             it == SetField(SetField(items[idx], "tidal_track_popularity",
                                     p.value),
                            "spotify_updated", clock)
         IN  /\ lookups' = Append(lookups,
                    [item |-> idx, key |-> p.key, found |-> p.value # None])
             /\ IF p.raised
                THEN /\ syncpc' = "aborted"
                     /\ UNCHANGED <<items, db, stores, tagWrites, idx, clock>>
                ELSE /\ items' = [items EXCEPT ![idx] = it]
                     /\ db' = [db EXCEPT ![idx] = it]
                     /\ stores' = [stores EXCEPT ![idx] = @ + 1]
                     /\ tagWrites' = [tagWrites EXCEPT
                                        ![idx] = IF write THEN @ + 1 ELSE @]
                     /\ clock' = clock + 1
                     /\ idx' = idx + 1
                     /\ UNCHANGED syncpc
    /\ UNCHANGED <<before, force, write>>
    /\ UNCHANGED <<sessVars, searchVars>>

\* the loop has run off the end of items
SyncReturn ==
    /\ syncpc = "running"
    /\ idx > Len(items)
    /\ syncpc' = "done"
    /\ UNCHANGED <<items, before, db, stores, tagWrites, lookups, idx,
                   force, write, clock>>
    /\ UNCHANGED <<sessVars, searchVars>>

NextSync ==
    TidalsyncCmd \/ SyncSkipPresent \/ SyncSkipNoId \/ SyncProcess
        \/ SyncReturn

SpecSync == InitSync /\ [][NextSync]_vars

----------------------------------------------------------------------------
(* tidalsync claims *)

HasPopularity(it) == "tidal_track_popularity" \in DOMAIN it
HasTrackId(it) == "tidal_track_id" \in DOMAIN it

\* the positions in lookups of the vendor lookups made for item i
LookupsOf(i) == { k \in 1..Len(lookups) : lookups[k].item = i }

\* item i was looked up, changed, stored or written by the command
Touched(i) ==
    \/ LookupsOf(i) # {}
    \/ items[i] # before[i]
    \/ db[i] # before[i]
    \/ stores[i] > 0
    \/ tagWrites[i] > 0

\* C3: every vendor lookup of tidalsync is made with the item's own
\* tidal_track_id, and a popularity the vendor returned for it is the one
\* stored in the item.
C3_LookupByOwnId ==
    \A k \in 1..Len(lookups) :
        LET i == lookups[k].item IN
        /\ lookups[k].key = before[i]["tidal_track_id"]
        /\ lookups[k].found =>
              items[i]["tidal_track_popularity"]
                  = Some(VendorPopularity[before[i]["tidal_track_id"]])

\* C4: without force an item that already has popularity data is never
\* looked up, modified, stored or written; with force every item that has a
\* track ID is looked up once and stored, popularity data or not; an item
\* without a track ID is left untouched in both modes.
C4_SkipUnlessForced ==
    \A i \in 1..Len(before) :
        /\ (~force /\ HasPopularity(before[i])) => ~Touched(i)
        /\ ~HasTrackId(before[i]) => ~Touched(i)
        /\ (force /\ HasTrackId(before[i]) /\ syncpc = "running" /\ i < idx) =>
              /\ Cardinality(LookupsOf(i)) = 1
              /\ stores[i] = 1
              /\ db[i] = items[i]
        /\ (force /\ HasTrackId(before[i]) /\ syncpc = "done") =>
              /\ Cardinality(LookupsOf(i)) = 1
              /\ stores[i] = 1
              /\ db[i] = items[i]

\* a forced run has ended in which an item that already had popularity data
\* was looked up and stored and an item without a track ID was passed over
C4_Witness ==
    /\ syncpc = "done"
    /\ force
    /\ Len(before) = 2
    /\ HasPopularity(before[1]) /\ HasTrackId(before[1])
    /\ LookupsOf(1) # {} /\ stores[1] = 1
    /\ ~HasTrackId(before[2]) /\ HasPopularity(before[2])

\* C5: tidalsync changes no field of any item other than
\* tidal_track_popularity: every other field keeps its value or its absence.
C5_OnlyPopularityChanges ==
    \A i \in 1..Len(before) :
        \A f \in (DOMAIN items[i] \cup DOMAIN before[i])
                    \ {"tidal_track_popularity"} :
            /\ f \in DOMAIN items[i]
            /\ f \in DOMAIN before[i]
            /\ items[i][f] = before[i][f]

\* C10: a failed popularity lookup never aborts tidalsync: the item is
\* stored with tidal_track_popularity None, and the items after it are
\* still processed, in order.
C10_FailedLookupGoesOn ==
    /\ syncpc # "aborted"
    /\ \A k \in 1..Len(lookups) :
          ~lookups[k].found =>
              LET i == lookups[k].item IN
              /\ HasPopularity(items[i])
              /\ items[i]["tidal_track_popularity"] = None
              /\ db[i] = items[i]
              /\ stores[i] = 1
    /\ \A k, l \in 1..Len(lookups) :
          k < l => lookups[k].item < lookups[l].item
    /\ syncpc = "done" =>
          \A i \in 1..Len(before) :
              ((force \/ ~HasPopularity(before[i])) /\ HasTrackId(before[i]))
                  => LookupsOf(i) # {}

\* a forced run has ended in which the lookup for the first item failed, its
\* earlier popularity was replaced by None, and the second item was still
\* looked up
C10_Witness ==
    /\ syncpc = "done"
    /\ force
    /\ Len(lookups) = 2
    /\ ~lookups[1].found
    /\ lookups[1].item = 1 /\ lookups[2].item = 2
    /\ HasPopularity(before[1])
    /\ before[1]["tidal_track_popularity"] = Some(10)
    /\ items[1]["tidal_track_popularity"] = None
    /\ stores[2] = 1

----------------------------------------------------------------------------
(* Query normalisation: the two re.sub calls of get_albums / get_tracks *)

\* the characters of the modelled inputs that \w matches
WordChars == {"c", "C", "d", "D", "i", "s", "k", "x", "1", "2", "_"}
Digits == {"1", "2"}

IsWord(c) == c \in WordChars
IsDigit(c) == c \in Digits
IsSpace(c) == c = " "

\* case folding of (?i), on the letters of the modelled inputs
Lower(c) == IF c = "C" THEN "c" ELSE IF c = "D" THEN "d" ELSE c

\* str + str
Concat(a, b) == a \o b

\* re.sub(r'(?u)\W+', ' ', q): every maximal run of non-word characters
\* becomes one space
RECURSIVE sub_nonword(_)
sub_nonword(q) ==
    IF q = <<>> THEN <<>>
    ELSE IF IsWord(Head(q)) THEN <<Head(q)>> \o sub_nonword(Tail(q))
    ELSE IF Len(q) > 1 /\ ~IsWord(q[2]) THEN sub_nonword(Tail(q))
    ELSE <<" ">> \o sub_nonword(Tail(q))

\* q[i..] starts with the letters of w, in any case
StartsWithAt(q, i, w) ==
    /\ i + Len(w) - 1 <= Len(q)
    /\ \A j \in 1..Len(w) : Lower(q[i + j - 1]) = w[j]

\* \b at position i: exactly one of q[i-1], q[i] is a word character
BoundaryAt(q, i) ==
    LET l == i > 1 /\ IsWord(q[i - 1])
        r == i <= Len(q) /\ IsWord(q[i])
    IN  l # r

\* first position from i on whose character does not satisfy the class
RECURSIVE SkipSpaces(_, _)
SkipSpaces(q, i) ==
    IF i <= Len(q) /\ IsSpace(q[i]) THEN SkipSpaces(q, i + 1) ELSE i

RECURSIVE SkipDigits(_, _)
SkipDigits(q, i) ==
    IF i <= Len(q) /\ IsDigit(q[i]) THEN SkipDigits(q, i + 1) ELSE i

\* where \s*\d+ ends when it starts at i, or 0 when it does not match
TailEnd(q, i) ==
    LET d == SkipSpaces(q, i)
        e == SkipDigits(q, d)
    IN  IF e > d THEN e ELSE 0

\* the words the second pattern alternates over
MediumWords == {<<"c", "d">>, <<"d", "i", "s", "c">>}

\* the position after a match of \b(CD|disc)\s*\d+ starting at i, else 0
MatchEnd(q, i) ==
    IF ~BoundaryAt(q, i) THEN 0
    ELSE IF \E w \in MediumWords :
                StartsWithAt(q, i, w) /\ TailEnd(q, i + Len(w)) > 0
         THEN LET w == CHOOSE w \in MediumWords :
                         StartsWithAt(q, i, w) /\ TailEnd(q, i + Len(w)) > 0
              IN  TailEnd(q, i + Len(w))
         ELSE 0

\* re.sub(r'(?i)\b(CD|disc)\s*\d+', '', q) from position i on: the
\* leftmost matches are cut out in one pass, matching against the original
RECURSIVE sub_medium_from(_, _)
sub_medium_from(q, i) ==
    IF i > Len(q) THEN <<>>
    ELSE IF MatchEnd(q, i) > 0 THEN sub_medium_from(q, MatchEnd(q, i))
    ELSE <<q[i]>> \o sub_medium_from(q, i + 1)

sub_medium(q) == sub_medium_from(q, 1)

\* the query get_albums and get_tracks hand to session.search
normalise(query) == sub_medium(sub_nonword(query))

----------------------------------------------------------------------------
(* The vendor's answers *)

AlbumIds == {"al1", "al2"}

\* what session.search can answer for objects with the given IDs: an
\* exception, or a result with a top hit (or none) and the listed objects
SearchResults(ids) ==
    { [status |-> "raise", top_hit |-> None, listed |-> <<>>] } \cup
    { [status |-> "ok", top_hit |-> h, listed |-> l] :
        h \in {None} \cup { Some(x) : x \in ids },
        l \in SeqsUpTo(ids, 1) }

\* what session.album can answer with besides the ID: wellformed is
\* whether the attributes the field mapping reads are there, tracks and
\* list_ok are what the second lookup of get_album_info and its tracks()
\* call give
AlbumAttrs ==
    [wellformed : BOOLEAN, image_ok : BOOLEAN, list_ok : BOOLEAN,
     tracks : SeqsUpTo(TrackIds, MaxTracks)]

\* the attributes of an album nobody reads
NoAttrs ==
    [wellformed |-> FALSE, image_ok |-> FALSE, list_ok |-> FALSE,
     tracks |-> <<>>]

\* how a session.album call can go: it fails, or answers with an album
AlbumAnswers ==
    { [fail |-> TRUE, attrs |-> NoAttrs] } \cup
    { [fail |-> FALSE, attrs |-> a] : a \in AlbumAttrs }

\* how a session.track call can go
TrackAnswers ==
    { [fail |-> TRUE, wf |-> FALSE] } \cup
    { [fail |-> FALSE, wf |-> w] : w \in BOOLEAN }

\* session.album(key): the vendor's album of that ID, or an exception
session_album(key, fail, attrs) ==
    IF key \in AlbumIds /\ ~fail
    THEN Returned([id |-> key, wellformed |-> attrs.wellformed,
                   image_ok |-> attrs.image_ok, list_ok |-> attrs.list_ok,
                   tracks |-> attrs.tracks])
    ELSE Raised

\* _get_track: the TrackInfo of a vendor track
get_track(track_data) ==
    IF ~track_data.wellformed THEN Raised       \* AttributeError
    ELSE Returned([track_id |-> track_data.id,
                   tidal_track_id |-> track_data.id,
                   data_source |-> "Tidal"])

\* get_album_info: the AlbumInfo of a vendor album
get_album_info(item) ==
    IF ~item.wellformed THEN Raised             \* AttributeError
    ELSE IF ~item.list_ok THEN Raised           \* session.album / tracks()
    ELSE IF item.tracks = <<>> THEN Raised      \* max() of no medium
    ELSE Returned(
           [album_id |-> item.id,
            tidal_album_id |-> item.id,
            tracks |-> [i \in 1..Len(item.tracks) |->
                          [track_id |-> item.tracks[i], index |-> i,
                           medium_total |-> Len(item.tracks)]],
            cover_art_url |-> IF item.image_ok THEN Some("url") ELSE None,
            data_source |-> "Tidal"])

\* the outcome of a search method: raised or the list returned, with the
\* query sent, the type searched and the detail lookup made
SearchOutcome(r, l, q, m, k, o) ==
    [raised |-> r, list |-> l, sent |-> q, searched |-> m, key |-> k,
     obj |-> o]

\* get_albums that takes the first listed album instead of the top hit
get_albums_first_listed(query, sr, fail, attrs) ==
    LET q == normalise(query) IN
    IF sr.status = "raise" THEN
        SearchOutcome(TRUE, <<>>, q, "album", None, None)
    ELSE IF sr.listed = <<>> THEN
        SearchOutcome(FALSE, <<>>, q, "album", None, None)
    ELSE LET id == sr.listed[1]
             d  == session_album(id, fail, attrs)
         IN  IF d.raised
             THEN SearchOutcome(TRUE, <<>>, q, "album", Some(id), None)
             ELSE LET info == get_album_info(Get(d.value)) IN
                  IF info.raised
                  THEN SearchOutcome(TRUE, <<>>, q, "album", Some(id),
                                     d.value)
                  ELSE SearchOutcome(FALSE, <<Get(info.value)>>, q, "album",
                                     Some(id), d.value)

\* get_albums: sr is the vendor's search answer; fail and attrs decide what
\* session.album answers
get_albums(query, sr, fail, attrs) ==
    LET q == normalise(query) IN
    IF sr.status = "raise" THEN                 \* data is unbound
        SearchOutcome(TRUE, <<>>, q, "album", None, None)
    ELSE IF sr.top_hit = None THEN
        SearchOutcome(FALSE, <<>>, q, "album", None, None)
    ELSE LET id == Get(sr.top_hit)
             d  == session_album(id, fail, attrs)
         IN  IF d.raised
             THEN SearchOutcome(TRUE, <<>>, q, "album", Some(id), None)
             ELSE LET info == get_album_info(Get(d.value)) IN
                  IF info.raised
                  THEN SearchOutcome(TRUE, <<>>, q, "album", Some(id),
                                     d.value)
                  ELSE SearchOutcome(FALSE, <<Get(info.value)>>, q, "album",
                                     Some(id), d.value)

\* get_tracks: as get_albums, over tracks; wf decides the track's shape
get_tracks(query, sr, fail, wf) ==
    LET q == normalise(query) IN
    IF sr.status = "raise" THEN                 \* data is unbound
        SearchOutcome(TRUE, <<>>, q, "track", None, None)
    ELSE IF sr.top_hit = None THEN
        SearchOutcome(FALSE, <<>>, q, "track", None, None)
    ELSE LET id == Get(sr.top_hit)
             d  == session_track(id, fail, wf)
         IN  IF d.raised
             THEN SearchOutcome(TRUE, <<>>, q, "track", Some(id), None)
             ELSE LET info == get_track(Get(d.value)) IN
                  IF info.raised
                  THEN SearchOutcome(TRUE, <<>>, q, "track", Some(id),
                                     d.value)
                  ELSE SearchOutcome(FALSE, <<Get(info.value)>>, q, "track",
                                     Some(id), d.value)

\* candidates without its except clause
candidates_unguarded(artist, release, va_likely, sr, fail, attrs) ==
    get_albums(IF va_likely THEN release
               ELSE Concat(Concat(release, <<" ">>), artist),
               sr, fail, attrs)

\* candidates: get_albums on the release, with the artist unless various
candidates(artist, release, va_likely, sr, fail, attrs) ==
    LET r == get_albums(IF va_likely THEN release
                        ELSE Concat(Concat(release, <<" ">>), artist),
                        sr, fail, attrs)
    IN  IF r.raised THEN [r EXCEPT !.raised = FALSE, !.list = <<>>] ELSE r

\* item_candidates: get_tracks on title and artist
item_candidates(artist, title, sr, fail, wf) ==
    LET r == get_tracks(Concat(Concat(title, <<" ">>), artist), sr, fail, wf)
    IN  IF r.raised THEN [r EXCEPT !.raised = FALSE, !.list = <<>>] ELSE r

\* "tidal.com" in release_id, the ID given as its '/'-separated segments
HasTidalHost(segs) == \E i \in 1..Len(segs) : segs[i] = "tidal.com"

\* what album_for_id looks up: the last segment of a tidal.com URL, else
\* the ID as given
release_key(segs) ==
    IF HasTidalHost(segs) THEN <<segs[Len(segs)]>> ELSE segs

\* album_for_id: None when the lookup fails, else get_album_info's outcome
album_for_id(segs, fail, attrs) ==
    LET k == release_key(segs)
        d == IF Len(k) = 1 THEN session_album(k[1], fail, attrs) ELSE Raised
    IN  IF d.raised THEN [raised |-> FALSE, value |-> None, obj |-> None]
        ELSE LET info == get_album_info(Get(d.value)) IN
             [raised |-> info.raised, value |-> info.value, obj |-> d.value]

\* the release IDs the host passes to album_for_id
ReleaseIds ==
    { <<"al1">>, <<"al2">>, <<"nosuch">>, <<"album", "al1">>,
      <<"https:", "", "tidal.com", "album", "al1">>,
      <<"https:", "", "tidal.com", "album", "al2", "">> }

----------------------------------------------------------------------------
(* SpecSearch *)

\* the pieces input strings are put together from
Pieces ==
    { <<"c", "D">>, <<"d", "i", "s", "c">>, <<"d", "i", "s", "k">>,
      <<"1">>, <<"-">> }

RECURSIVE Strings(_)
Strings(n) ==
    IF n = 0 THEN {<<>>}
    ELSE LET S == Strings(n - 1) IN
         S \cup { Concat(x, y) : x \in S, y \in Pieces }

Artists == { <<"x">>, <<"C", "d", " ", "2">> }

InitSearch ==
    /\ SessionReady
    /\ SyncIdle
    /\ text \in Strings(MaxParts)
    /\ artistIn \in Artists
    /\ NoCall

\* the variables a search method call leaves behind
Called(name, r) ==
    /\ op' = name
    /\ sent' = r.sent
    /\ searched' = r.searched
    /\ detailKey' = r.key
    /\ vobj' = r.obj
    /\ outcome' = IF r.raised THEN "raised" ELSE "returned"
    /\ resultList' = r.list
    /\ resultValue' = None
    /\ UNCHANGED <<text, artistIn, sessVars, syncVars>>

\* the host (or a caller) calls get_albums(text)
GetAlbums ==
    /\ op = "none"
    /\ \E sr \in SearchResults(AlbumIds), v \in AlbumAnswers :
         /\ found' = sr
         /\ Called("get_albums", get_albums(text, sr, v.fail, v.attrs))

\* get_tracks(text)
GetTracks ==
    /\ op = "none"
    /\ \E sr \in SearchResults(TrackIds), v \in TrackAnswers :
         /\ found' = sr
         /\ Called("get_tracks", get_tracks(text, sr, v.fail, v.wf))

\* candidates(items, artistIn, text, va_likely)
Candidates ==
    /\ op = "none"
    /\ \E va \in BOOLEAN, sr \in SearchResults(AlbumIds), v \in AlbumAnswers :
         /\ found' = sr
         /\ Called("candidates",
                   candidates(artistIn, text, va, sr, v.fail, v.attrs))

\* item_candidates(item, artistIn, text)
ItemCandidates ==
    /\ op = "none"
    /\ \E sr \in SearchResults(TrackIds), v \in TrackAnswers :
         /\ found' = sr
         /\ Called("item_candidates",
                   item_candidates(artistIn, text, sr, v.fail, v.wf))

\* album_for_id(release_id)
AlbumForId ==
    /\ op = "none"
    /\ \E segs \in ReleaseIds, v \in AlbumAnswers :
         LET r == album_for_id(segs, v.fail, v.attrs) IN
         /\ op' = "album_for_id"
         /\ detailKey' = Some(release_key(segs))
         /\ vobj' = r.obj
         /\ outcome' = IF r.raised THEN "raised" ELSE "returned"
         /\ resultValue' = r.value
         /\ UNCHANGED <<sent, searched, found, resultList>>
         /\ UNCHANGED <<text, artistIn, sessVars, syncVars>>

NextSearch ==
    GetAlbums \/ GetTracks \/ Candidates \/ ItemCandidates \/ AlbumForId

SpecSearch == InitSearch /\ [][NextSearch]_vars

----------------------------------------------------------------------------
(* Search claims *)

\* the disc/medium words the claim names
MarkerWords == MediumWords \cup {<<"d", "i", "s", "k">>}

\* q holds one of the words, at a word boundary and in any case, followed
\* by optional whitespace and digits
HasMarker(q) ==
    \E i \in 1..Len(q) :
        /\ BoundaryAt(q, i)
        /\ \E w \in MarkerWords :
              StartsWithAt(q, i, w) /\ TailEnd(q, i + Len(w)) > 0

\* C6: the query get_albums and get_tracks send to the search endpoint
\* holds no disc/medium marker (CD, disc or disk followed by digits, in any
\* case) and no character other than word characters and spaces.
C6_NoMediumMarkerSent ==
    op \in {"get_albums", "get_tracks"} =>
        /\ ~HasMarker(sent)
        /\ \A i \in 1..Len(sent) : IsWord(sent[i]) \/ IsSpace(sent[i])

\* the mapping of the looked-up object into the host's shape fails
MappingFails ==
    /\ vobj # None
    /\ IF searched = "album"
       THEN \/ ~Get(vobj).wellformed
            \/ ~Get(vobj).list_ok
            \/ Get(vobj).tracks = <<>>
       ELSE ~Get(vobj).wellformed

\* C7: get_albums and get_tracks search the album and the track type and
\* return at most one element: the one built from the object with the top
\* hit's ID when there is a top hit, the empty list when there is none.
C7_TopHitOnly ==
    /\ (op \in {"get_albums", "get_tracks"} /\ outcome = "returned") =>
          /\ Len(resultList) <= 1
          /\ searched = (IF op = "get_albums" THEN "album" ELSE "track")
          /\ found.status = "ok"
          /\ found.top_hit = None => resultList = <<>>
          /\ found.top_hit # None =>
                /\ Len(resultList) = 1
                /\ detailKey = found.top_hit
                /\ Get(vobj).id = Get(found.top_hit)
                /\ IF op = "get_albums"
                   THEN resultList[1].album_id = Get(found.top_hit)
                   ELSE resultList[1].track_id = Get(found.top_hit)
    /\ (op \in {"get_albums", "get_tracks"} /\ found.status = "ok"
            /\ found.top_hit = None) =>
          outcome = "returned"

\* get_albums has returned the album of the top hit although the search
\* listed another album first
C7_Witness ==
    /\ op = "get_albums"
    /\ outcome = "returned"
    /\ Len(resultList) = 1
    /\ found.listed # <<>>
    /\ found.listed[1] # Get(found.top_hit)
    /\ resultList[1].album_id = Get(found.top_hit)

\* C8: candidates and item_candidates never raise; when the search call,
\* the detail lookup of the top hit or the field mapping raises, they
\* return the empty list.
C8_CandidatesNeverRaise ==
    op \in {"candidates", "item_candidates"} =>
        /\ outcome = "returned"
        /\ found.status = "raise" => resultList = <<>>
        /\ (found.top_hit # None /\ vobj = None) => resultList = <<>>
        /\ MappingFails => resultList = <<>>

\* candidates has returned the empty list after the search call raised
C8_Witness ==
    /\ op = "candidates"
    /\ found.status = "raise"
    /\ outcome = "returned"
    /\ resultList = <<>>

\* C9: album_for_id never raises: it returns None when the album lookup
\* fails and an AlbumInfo for every album the vendor answers with.
C9_AlbumForIdNeverRaises ==
    op = "album_for_id" =>
        /\ outcome = "returned"
        /\ vobj = None => resultValue = None
        /\ vobj # None => resultValue # None

====
